---- MODULE Spec2Model ----
(***************************************************************************)
(* Model of mcp_server_docy/server.py: the async_cached wrapper, the       *)
(* documentation fetch operation, the source registry and the call_tool /  *)
(* get_prompt handlers registered by serve().                              *)
(*                                                                         *)
(* Python strings are sequences of tokens (a token is a run of characters  *)
(* without quotes or backslashes, or one of the characters ', " and \).    *)
(* Requests are coroutines of one asyncio event loop: a step of the model  *)
(* runs a coroutine from one suspension point (await) to the next.         *)
(***************************************************************************)
EXTENDS Integers, Sequences, FiniteSets, TLC

\* ----------------------------------------------------------------- bounds
\* Number of requests the server receives in one run.
NReq == 2
\* The clock (the TTLCache timer) runs from 0 to MaxTime.
MaxTime == 2
\* Longest documentation_urls list handed to serve().
MaxDocs == 2

\* ------------------------------------------------------ program constants
\* mcp.types.INVALID_PARAMS and mcp.types.INTERNAL_ERROR (JSON-RPC codes).
INVALID_PARAMS == -32602
INTERNAL_ERROR == -32603
\* TTLCache(maxsize=500, ...)
maxsize == 500

Reqs == 1..NReq
Free == 0

\* ---------------------------------------------------------------- strings
SQ == "'"
DQ == "\""
BS == "\\"
NL == "\n"

\* A Python value that may arrive as the "url" argument: a str or an int.
PyStr(s) == [t |-> "str", s |-> s]
PyInt(s) == [t |-> "int", s |-> s]

URL_DOCS == <<"https://example.com/docs">>
URL_INTRO == <<"https://example.com/docs", "/intro">>
URL_QUOTED == <<"https://example.com/it", SQ, "s">>
URL_API == <<"https://example.com/api">>

\* URLs a client asks for, and the non-string value a client may send.
FetchUrls == {URL_INTRO, URL_QUOTED}
UrlValues == {PyStr(u) : u \in FetchUrls} \cup {PyInt(<<"5">>)}

\* URLs that may be configured as documentation sources.
DocUrls == {URL_DOCS, URL_API}

\* All sequences over S of length at most n.
SeqsUpTo(S, n) == UNION {[1..k -> S] : k \in 0..n}

Contains(s, c) == \E i \in 1..Len(s) : s[i] = c

RECURSIVE Escape(_, _)
\* Backslash-escape every token of s that is in the set special.
Escape(s, special) ==
    IF s = <<>> THEN <<>>
    ELSE (IF Head(s) \in special THEN <<BS, Head(s)>> ELSE <<Head(s)>>)
         \o Escape(Tail(s), special)

\* repr() of a str: single quotes, unless the text holds ' and no ".
ReprStr(s) ==
    IF Contains(s, SQ) /\ ~Contains(s, DQ)
    THEN <<DQ>> \o Escape(s, {BS}) \o <<DQ>>
    ELSE <<SQ>> \o Escape(s, {BS, SQ}) \o <<SQ>>

\* repr() of a value; str() of an int is its digits.
Repr(v) == IF v.t = "str" THEN ReprStr(v.s) ELSE v.s

\* str() of a value.
Str(v) == v.s

\* The mutant of CacheKey: a key that ignores the arguments.
CacheKeyConst(v) == <<"(", ")", "{", "}">>

\* key = str(args) + str(kwargs) for the one positional argument v.
CacheKey(v) == <<"(">> \o Repr(v) \o <<",", ")">> \o <<"{", "}">>

\* ------------------------------------------------------------ cache object
EmptyData == [k \in {} |-> 0]

\* The value None, in the shape of a cache object.
NoneCache == [kind |-> "None", ttl |-> 0, data |-> EmptyData]

\* TTLCache(maxsize=500, ttl=cache_ttl): no entries yet.
NewTTLCache(cache_ttl) == [kind |-> "TTLCache", ttl |-> cache_ttl, data |-> EmptyData]

\* Entries of c that have not expired at time t (expires > t).
LiveKeys(c, t) == {k \in DOMAIN c.data : t < c.data[k].expires}

\* len(cache): expired entries are not counted.
CacheLen(c, t) == Cardinality(LiveKeys(c, t))

\* bool(cache): None is falsy, and so is a mapping of length 0.
Truthy(c, t) == c.kind # "None" /\ CacheLen(c, t) > 0

\* key in cache
CacheContains(c, key, t) == c.kind # "None" /\ key \in LiveKeys(c, t)

\* The oldest live entry, the one TTLCache evicts when it is full.
Oldest(c, t) ==
    CHOOSE k \in LiveKeys(c, t) :
        \A j \in LiveKeys(c, t) : c.data[k].expires <= c.data[j].expires

\* cache[key] = value: expired entries are dropped, a full cache evicts one
\* entry, and the new entry expires ttl after t.
CacheSetItem(c, key, value, t) ==
    LET live == LiveKeys(c, t)
        keep == IF key \notin live /\ Cardinality(live) >= maxsize
                THEN live \ {Oldest(c, t)}
                ELSE live
        entry == [value |-> value, expires |-> t + c.ttl]
    IN [c EXCEPT !.data =
            [k \in keep \cup {key} |-> IF k = key THEN entry ELSE c.data[k]]]

\* ------------------------------------------------------------ data shapes
\* The dict fetch_documentation_content returns.
Record(url, title, markdown, links) ==
    [url |-> url, title |-> title, markdown |-> markdown, links |-> links]

NoRecord == Record(PyStr(<<>>), <<>>, <<>>, <<>>)

\* What the crawl engine does with one arun(): it returns a result object
\* (title, markdown, links, success) or it raises an exception with a message.
NoEngine ==
    [kind |-> "none", title |-> <<>>, markdown |-> <<>>, links |-> <<>>,
     success |-> FALSE, msg |-> <<>>]

EngineReturn(title, markdown, links, success) ==
    [kind |-> "return", title |-> title, markdown |-> markdown, links |-> links,
     success |-> success, msg |-> <<>>]

EngineRaise(msg) ==
    [kind |-> "raise", title |-> <<>>, markdown |-> <<>>, links |-> <<>>,
     success |-> FALSE, msg |-> msg]

\* The results the engine may return and the messages it may raise with.
EngineReturns ==
    { EngineReturn(<<"Intro">>, <<"# ", "Intro", NL, "Body">>, <<"/intro">>, TRUE),
      EngineReturn(<<"Guide">>, <<"Text">>, <<>>, TRUE),
      EngineReturn(<<"Error">>, <<>>, <<>>, FALSE) }

EngineMessages == { <<"timeout">>, <<"net::ERR", " ", "refused">> }

\* A handler's outcome: a list of one TextContent (content), a GetPromptResult
\* (prompt) or a raised McpError (error, text is its message).
NoResponse == [kind |-> "none", code |-> 0, description |-> <<>>, text |-> <<>>]

Content(text) == [kind |-> "content", code |-> 0, description |-> <<>>, text |-> text]

PromptResult(description, text) ==
    [kind |-> "prompt", code |-> 0, description |-> description, text |-> text]

McpError(code, message) ==
    [kind |-> "error", code |-> code, description |-> <<>>, text |-> message]

\* The arguments of a request: None, or a dict with or without "url".
EmptyDict == [n \in {} |-> PyStr(<<>>)]

NoneArguments == [none |-> TRUE, d |-> EmptyDict]

Dict(d) == [none |-> FALSE, d |-> d]

UrlDict(v) == Dict([n \in {"url"} |-> v])

\* call_tool(name, arguments: dict)
ToolArguments == {Dict(EmptyDict)} \cup {UrlDict(v) : v \in UrlValues}

\* get_prompt(name, arguments: dict | None)
PromptArguments == {NoneArguments} \cup ToolArguments

\* serve(documentation_urls: List[str] | None)
NoneList == [none |-> TRUE, l |-> <<>>]

DocumentationUrlLists ==
    {NoneList} \cup {[none |-> FALSE, l |-> l] : l \in SeqsUpTo(DocUrls, MaxDocs)}

\* serve(cache_ttl: int)
CacheTtls == {1, 2}

\* ------------------------------------------------------------------ state
VARIABLES
    server,              \* "imported" (module loaded) or "serving" (inside serve())
    DOCUMENTATION_URLS,  \* the global list of configured sources
    http_cache,          \* the global _http_cache
    cache,               \* the variable cache of the closure wrapper (async_cached's argument)
    cache_lock,          \* the holder of _cache_lock, or Free
    now,                 \* the clock the TTLCache reads
    req,                 \* the requests: each one's coroutine position and local values
    last                 \* per url value: how the last completed fetch of it ended, and when

vars == <<server, DOCUMENTATION_URLS, http_cache, cache, cache_lock, now, req, last>>

IdleReq ==
    [pc |-> "idle", via |-> "-", name |-> "-", arguments |-> NoneArguments,
     url |-> PyStr(<<>>), key |-> <<>>, hit |-> FALSE, session |-> "none",
     aruns |-> 0, engine |-> NoEngine, result |-> NoRecord, results |-> <<>>,
     response |-> NoResponse, expect |-> "-", peers |-> {}]

NoLast == [outcome |-> "none", at |-> 0, record |-> NoRecord]

\* The module has been imported: _http_cache = None, the decorator
\* @async_cached(_http_cache) has been applied with that value, the lock is
\* free, DOCUMENTATION_URLS = [].
Init ==
    /\ server = "imported"
    /\ DOCUMENTATION_URLS = <<>>
    /\ http_cache = NoneCache
    /\ cache = NoneCache
    /\ cache_lock = Free
    /\ now = 0
    /\ req = [r \in Reqs |-> IdleReq]
    /\ last = [v \in UrlValues |-> NoLast]

\* serve(): creates the TTLCache, stores the documentation URLs, registers the
\* handlers and runs the server.
serve(documentation_urls, cache_ttl) ==
    /\ server = "imported"
    /\ server' = "serving"
    /\ http_cache' = NewTTLCache(cache_ttl)
    /\ DOCUMENTATION_URLS' =
           IF ~documentation_urls.none /\ Len(documentation_urls.l) > 0
           THEN documentation_urls.l
           ELSE <<>>
    /\ UNCHANGED <<cache, cache_lock, now, req, last>>

\* Time passes.
Tick ==
    /\ now < MaxTime
    /\ now' = now + 1
    /\ UNCHANGED <<server, DOCUMENTATION_URLS, http_cache, cache, cache_lock, req, last>>

\* ------------------------------------------------------- source registry
\* One descriptor of list_documentation_sources().
Descriptor(url) ==
    [url |-> url, type |-> <<"web">>, description |-> <<"Web-based documentation">>]

RECURSIVE AppendDescriptors(_, _)
\* The loop of list_documentation_sources(): results.append(...) per url.
AppendDescriptors(results, urls) ==
    IF urls = <<>> THEN results
    ELSE AppendDescriptors(Append(results, Descriptor(Head(urls))), Tail(urls))

\* The mutant of list_documentation_sources: the first source is skipped.
list_documentation_sources_skip ==
    IF DOCUMENTATION_URLS = <<>> THEN <<>>
    ELSE AppendDescriptors(<<>>, Tail(DOCUMENTATION_URLS))

\* list_documentation_sources(): results = [], then the loop.
list_documentation_sources == AppendDescriptors(<<>>, DOCUMENTATION_URLS)

\* A JSON string literal.
JsonString(s) == <<DQ>> \o Escape(s, {DQ, BS}) \o <<DQ>>

\* One member line of an object at indent 4.
JsonMember(name, s) == <<"    ">> \o JsonString(<<name>>) \o <<": ">> \o JsonString(s)

\* A descriptor as json.dumps(..., indent=2) writes it inside a list.
JsonObject(d) ==
    <<"{", NL>> \o JsonMember("url", d.url) \o <<",", NL>>
    \o JsonMember("type", d.type) \o <<",", NL>>
    \o JsonMember("description", d.description) \o <<NL, "  ", "}">>

RECURSIVE JsonItems(_)
\* The items of a non-empty list, separated by ",\n".
JsonItems(results) ==
    <<"  ">> \o JsonObject(Head(results))
    \o (IF Len(results) = 1 THEN <<>> ELSE <<",", NL>> \o JsonItems(Tail(results)))

\* json.dumps(results, indent=2)
JsonDumps(results) ==
    IF results = <<>> THEN <<"[]">>
    ELSE <<"[", NL>> \o JsonItems(results) \o <<NL, "]">>

\* f"Available documentation sources:\n{json.dumps(results, indent=2)}"
SourcesText(results) ==
    <<"Available documentation sources:", NL>> \o JsonDumps(results)

\* ---------------------------------------------------------- text shaping
\* f"# {result['title']}\n\n{result['markdown']}"
PageText(result) == <<"# ">> \o result.title \o <<NL, NL>> \o result.markdown

\* The mutant of FetchFailureMessage: the original message is dropped.
FetchFailureMessageBare(msg) == <<"Failed to fetch documentation content">>

\* f"Failed to fetch documentation content: {str(e)}"
FetchFailureMessage(msg) == <<"Failed to fetch documentation content: ">> \o msg

\* str(e) of the pydantic ValidationError of DocumentationUrl(**arguments).
ValidationMessage(arguments) ==
    <<"1 validation error for DocumentationUrl", NL, "url", NL>>
    \o (IF "url" \in DOMAIN arguments.d
        THEN <<"  Input should be a valid string">>
        ELSE <<"  Field required">>)

\* DocumentationUrl(**arguments) succeeds: url is present and a str.
ValidDocumentationUrl(arguments) ==
    "url" \in DOMAIN arguments.d /\ arguments.d["url"].t = "str"

\* What a fetch handler gives its caller for a fetched (or cached) record.
PageResponse(via, result) ==
    IF via = "tool"
    THEN Content(PageText(result))
    ELSE PromptResult(<<"Documentation content for ">> \o result.title, PageText(result))

\* What a fetch handler gives its caller when fetch_documentation_content
\* raised McpError e: call_tool lets it through, get_prompt answers with a
\* failure message holding str(e).
FailureResponse(via, url, e) ==
    IF via = "tool"
    THEN e
    ELSE PromptResult(<<"Failed to fetch content from URL: ">> \o Str(url), e.text)

\* ---------------------------------------------------------------- wrapper
\* A request that is suspended inside fetch_documentation_content.
InFlight(q) == q.pc \in {"entering", "crawling", "closing"}

\* How the last completed fetch of url stands to a call made now: "fresh"
\* (it succeeded less than ttl ago), "edge" (exactly ttl ago), "expired" (more
\* than ttl ago), "after_failure" (it raised) or "first" (there was none).
Expect(url) ==
    LET l == last[url]
    IN CASE l.outcome = "none" -> "first"
         [] l.outcome = "failed" -> "after_failure"
         [] l.outcome = "ok" ->
                IF now - l.at < http_cache.ttl THEN "fresh"
                ELSE IF now - l.at > http_cache.ttl THEN "expired"
                ELSE "edge"

\* The mutant of CacheHit: a memo of every successful fetch, which
\* never expires.
CacheHitNoExpiry(c, key, t) ==
    \E v \in UrlValues : CacheKey(v) = key /\ last[v].outcome = "ok"

\* if cache and key in cache
CacheHit(c, key, t) == Truthy(c, t) /\ CacheContains(c, key, t)

\* cache[key] on the hit path.
CacheGetItem(c, key, t) ==
    IF CacheContains(c, key, t) THEN c.data[key].value ELSE NoRecord

\* wrapper(url), called by the handler of request r, up to its first
\* suspension: the key, the lookup, and on a miss the call of
\* fetch_documentation_content, which suspends entering AsyncWebCrawler().
\* lockAfter is the holder of _cache_lock when the wrapper suspends.
wrapper_call(r, via, arguments, url, lockAfter) ==
    LET key == CacheKey(url)
        others == {q \in Reqs \ {r} : InFlight(req[q]) /\ req[q].url = url}
        called == [req[r] EXCEPT !.via = via, !.name = "fetch_documentation_page",
                                 !.arguments = arguments, !.url = url, !.key = key,
                                 !.expect = Expect(url), !.peers = others]
        value == CacheGetItem(cache, key, now)
    IN IF CacheHit(cache, key, now)
       THEN /\ req' = [req EXCEPT ![r] =
                          [called EXCEPT !.pc = "done", !.hit = TRUE, !.result = value,
                                         !.response = PageResponse(via, value)]]
            /\ UNCHANGED cache_lock
       ELSE /\ req' = [q \in Reqs |->
                          IF q = r THEN [called EXCEPT !.pc = "entering"]
                          ELSE IF q \in others THEN [req[q] EXCEPT !.peers = @ \cup {r}]
                          ELSE req[q]]
            /\ cache_lock' = lockAfter

\* The mutant of wrapper: the lock is taken around the whole call of func.
wrapper_locked(r, via, arguments, url) ==
    /\ cache_lock = Free
    /\ wrapper_call(r, via, arguments, url, r)

\* wrapper(url): the lock is not touched before func is awaited.
wrapper(r, via, arguments, url) == wrapper_call(r, via, arguments, url, cache_lock)

\* A request that ends in the handler itself, without a fetch.
Answer(r, via, name, arguments, results, response) ==
    req' = [req EXCEPT ![r] = [@ EXCEPT !.pc = "done", !.via = via, !.name = name,
                                        !.arguments = arguments, !.results = results,
                                        !.response = response]]

\* The server takes request r: requests are numbered in the order they arrive.
Receiving(r) ==
    /\ server = "serving"
    /\ req[r].pc = "idle"
    /\ \A q \in Reqs : q < r => req[q].pc # "idle"

\* ------------------------------------------------------------- call_tool
\* call_tool("list_documentation_sources", arguments)
call_tool_list(r) ==
    /\ Receiving(r)
    /\ LET results == list_documentation_sources
       IN Answer(r, "tool", "list_documentation_sources", NoneArguments, results,
                 Content(SourcesText(results)))
    /\ UNCHANGED <<server, DOCUMENTATION_URLS, http_cache, cache, cache_lock, now, last>>

\* call_tool("fetch_documentation_page", arguments)
call_tool_fetch(r, arguments) ==
    /\ Receiving(r)
    /\ IF ~ValidDocumentationUrl(arguments)
       THEN /\ Answer(r, "tool", "fetch_documentation_page", arguments, <<>>,
                      McpError(INVALID_PARAMS, ValidationMessage(arguments)))
            /\ UNCHANGED cache_lock
       ELSE wrapper(r, "tool", arguments, arguments.d["url"])
    /\ UNCHANGED <<server, DOCUMENTATION_URLS, http_cache, cache, now, last>>

\* call_tool(name, arguments) with any other name
call_tool_unknown(r) ==
    /\ Receiving(r)
    /\ Answer(r, "tool", "other", NoneArguments, <<>>,
              McpError(INVALID_PARAMS, <<"Unknown tool: ", "other">>))
    /\ UNCHANGED <<server, DOCUMENTATION_URLS, http_cache, cache, cache_lock, now, last>>

\* ------------------------------------------------------------ get_prompt
\* get_prompt("list_documentation_sources", arguments)
get_prompt_list(r) ==
    /\ Receiving(r)
    /\ LET results == list_documentation_sources
       IN Answer(r, "prompt", "list_documentation_sources", NoneArguments, results,
                 PromptResult(<<"List of available documentation sources">>,
                              SourcesText(results)))
    /\ UNCHANGED <<server, DOCUMENTATION_URLS, http_cache, cache, cache_lock, now, last>>

\* get_prompt("fetch_documentation_page", arguments)
get_prompt_fetch(r, arguments) ==
    /\ Receiving(r)
    /\ IF arguments.none \/ DOMAIN arguments.d = {} \/ "url" \notin DOMAIN arguments.d
       THEN /\ Answer(r, "prompt", "fetch_documentation_page", arguments, <<>>,
                      McpError(INVALID_PARAMS, <<"Documentation page URL is required">>))
            /\ UNCHANGED cache_lock
       ELSE wrapper(r, "prompt", arguments, arguments.d["url"])
    /\ UNCHANGED <<server, DOCUMENTATION_URLS, http_cache, cache, now, last>>

\* get_prompt(name, arguments) with any other name
get_prompt_unknown(r) ==
    /\ Receiving(r)
    /\ Answer(r, "prompt", "other", NoneArguments, <<>>,
              McpError(INVALID_PARAMS, <<"Unknown prompt: ", "other">>))
    /\ UNCHANGED <<server, DOCUMENTATION_URLS, http_cache, cache, cache_lock, now, last>>

\* ------------------------------------------- fetch_documentation_content
\* AsyncWebCrawler() has been entered: the session is open, arun(url=url) is
\* called and the request waits for it.
crawler_enter(r) ==
    /\ req[r].pc = "entering"
    /\ req' = [req EXCEPT ![r] = [@ EXCEPT !.pc = "crawling", !.session = "open",
                                           !.aruns = @ + 1]]
    /\ UNCHANGED <<server, DOCUMENTATION_URLS, http_cache, cache, cache_lock, now, last>>

\* arun() returns res: the dict is built and returned from inside the
\* async with block, so the request waits for the session to close.
arun_returns(r, res) ==
    /\ req[r].pc = "crawling"
    /\ req' = [req EXCEPT ![r] =
                  [@ EXCEPT !.pc = "closing", !.engine = res,
                            !.result = Record(req[r].url, res.title, res.markdown,
                                              res.links)]]
    /\ UNCHANGED <<server, DOCUMENTATION_URLS, http_cache, cache, cache_lock, now, last>>

\* arun() raises an exception with message msg: it leaves the async with
\* block, so the request waits for the session to close.
arun_raises(r, msg) ==
    /\ req[r].pc = "crawling"
    /\ req' = [req EXCEPT ![r] = [@ EXCEPT !.pc = "closing", !.engine = EngineRaise(msg)]]
    /\ UNCHANGED <<server, DOCUMENTATION_URLS, http_cache, cache, cache_lock, now, last>>

\* The session has closed after a returned dict: the wrapper stores it (if
\* cache: under the lock) and returns it, and the handler shapes its answer.
fetch_returns(r) ==
    /\ req[r].pc = "closing"
    /\ req[r].engine.kind = "return"
    /\ Truthy(cache, now) => cache_lock = Free
    /\ cache' = IF Truthy(cache, now)
                THEN CacheSetItem(cache, req[r].key, req[r].result, now)
                ELSE cache
    /\ req' = [req EXCEPT ![r] =
                  [@ EXCEPT !.pc = "done", !.session = "closed",
                            !.response = PageResponse(req[r].via, req[r].result)]]
    /\ last' = [last EXCEPT ![req[r].url] =
                   [outcome |-> "ok", at |-> now, record |-> req[r].result]]
    /\ UNCHANGED <<server, DOCUMENTATION_URLS, http_cache, cache_lock, now>>

\* The session has closed after an exception: it is wrapped in an McpError,
\* the wrapper logs and re-raises it, and the handler passes it on (tool) or
\* answers with its text (prompt). cacheAfter is the cache that results.
fetch_raises_to(r, cacheAfter) ==
    /\ req[r].pc = "closing"
    /\ req[r].engine.kind = "raise"
    /\ LET e == McpError(INTERNAL_ERROR, FetchFailureMessage(req[r].engine.msg))
       IN req' = [req EXCEPT ![r] =
                     [@ EXCEPT !.pc = "done", !.session = "closed",
                               !.response = FailureResponse(req[r].via, req[r].url, e)]]
    /\ http_cache' = cacheAfter
    /\ last' = [last EXCEPT ![req[r].url] =
                   [outcome |-> "failed", at |-> now, record |-> NoRecord]]
    /\ UNCHANGED <<server, DOCUMENTATION_URLS, cache, cache_lock, now>>

\* The mutant of fetch_raises: the failure is put in the cache.
fetch_raises_stored(r) ==
    fetch_raises_to(r, CacheSetItem(http_cache, req[r].key, NoRecord, now))

\* The failure path: nothing is stored.
fetch_raises(r) == fetch_raises_to(r, http_cache)

\* ---------------------------------------------------------- specification
\* The steps of the program when serve() is given a list of lists and a ttl
\* of ttls, clients send the arguments of toolArgs and promptArgs, the engine
\* returns a result of returns or raises with a message of messages, and the
\* clock runs to horizon.
NextOver(lists, ttls, toolArgs, promptArgs, returns, messages, horizon) ==
    \/ \E l \in lists, t \in ttls : serve(l, t)
    \/ now < horizon /\ Tick
    \/ \E r \in Reqs : call_tool_list(r)
    \/ \E r \in Reqs, a \in toolArgs : call_tool_fetch(r, a)
    \/ \E r \in Reqs : call_tool_unknown(r)
    \/ \E r \in Reqs : get_prompt_list(r)
    \/ \E r \in Reqs, a \in promptArgs : get_prompt_fetch(r, a)
    \/ \E r \in Reqs : get_prompt_unknown(r)
    \/ \E r \in Reqs : crawler_enter(r)
    \/ \E r \in Reqs, res \in returns : arun_returns(r, res)
    \/ \E r \in Reqs, m \in messages : arun_raises(r, m)
    \/ \E r \in Reqs : fetch_returns(r)
    \/ \E r \in Reqs : fetch_raises(r)

\* The cache: two URLs, two pages and one failure, both ttls, the whole clock.
CacheReturns == {e \in EngineReturns : e.success}

CacheArguments == {UrlDict(PyStr(u)) : u \in FetchUrls}

Next ==
    NextOver({NoneList}, CacheTtls, CacheArguments, {UrlDict(PyStr(URL_INTRO))},
             CacheReturns, {<<"timeout">>}, MaxTime)

Spec == Init /\ [][Next]_vars

\* The adapter: every shape of arguments, every engine outcome.
AdapterArguments == (PromptArguments \ CacheArguments) \cup {UrlDict(PyStr(URL_INTRO))}

NextAdapter ==
    NextOver({NoneList}, {1}, AdapterArguments \ {NoneArguments}, AdapterArguments,
             EngineReturns, EngineMessages, 1)

SpecAdapter == Init /\ [][NextAdapter]_vars

\* The registry: every list of sources.
SourcesArguments == {UrlDict(PyStr(URL_INTRO))}

NextSources ==
    NextOver(DocumentationUrlLists, {1}, SourcesArguments, SourcesArguments,
             {EngineReturn(<<"Guide">>, <<"Text">>, <<>>, TRUE)}, {<<"timeout">>}, 1)

SpecSources == Init /\ [][NextSources]_vars

\* ------------------------------------------------------------ properties
\* The wrapper has been called for request q.
Called(q) == q.key # <<>>

\* The dict a crawl with engine result e gives for url.
Crawled(url, e) == [url |-> url, title |-> e.title, markdown |-> e.markdown, links |-> e.links]

\* s ends with t.
EndsWith(s, t) == Len(s) >= Len(t) /\ SubSeq(s, Len(s) - Len(t) + 1, Len(s)) = t

\* The arguments lack "url", or "url" is not a string.
Malformed(a) == a.none \/ "url" \notin DOMAIN a.d \/ a.d["url"].t # "str"

\* C1 (checked under Spec): a call made less than ttl after a fetch of the
\* same URL completed successfully is a cache hit: it returns at once with the
\* stored record and never invokes the crawl.
CacheHitSuppressesRefetch ==
    \A r \in Reqs :
        Called(req[r]) /\ req[r].expect = "fresh"
        => req[r].hit /\ req[r].pc = "done" /\ req[r].aruns = 0

\* C2 (checked under Spec): a step in which a fetch ends because the crawl
\* raised leaves both cache objects as they were, and a call that follows a
\* failed fetch of the same URL is a miss that invokes the crawl itself.
FailureIsNotCached ==
    /\ [][\A r \in Reqs :
            (req[r].pc = "closing" /\ req[r].engine.kind = "raise" /\ req'[r].pc = "done")
            => (http_cache' = http_cache /\ cache' = cache)]_vars
    /\ [](\A r \in Reqs :
            Called(req[r]) /\ req[r].expect = "after_failure"
            => /\ ~req[r].hit
               /\ req[r].pc \in {"entering", "crawling", "closing", "done"}
               /\ req[r].pc # "entering" => req[r].aruns = 1)

\* A failed fetch, and a later call for the same URL that has invoked the crawl.
FailureIsNotCachedWitness ==
    \E r1, r2 \in Reqs :
        /\ req[r1].pc = "done" /\ req[r1].engine.kind = "raise"
        /\ req[r2].url = req[r1].url /\ req[r2].expect = "after_failure"
        /\ req[r2].pc = "crawling" /\ req[r2].aruns = 1

\* C3 (checked under Spec): a call made more than ttl after the last
\* successful fetch of the same URL is a miss: it invokes the crawl once and
\* what it returns is the record of its own crawl.
ExpiredEntryIsMiss ==
    \A r \in Reqs :
        Called(req[r]) /\ req[r].expect = "expired"
        => /\ ~req[r].hit
           /\ req[r].pc \in {"entering", "crawling", "closing", "done"}
           /\ req[r].pc # "entering" => req[r].aruns = 1
           /\ req[r].pc = "done" /\ req[r].engine.kind = "return"
              => req[r].result = Crawled(req[r].url, req[r].engine)

\* A call made after the ttl has passed, which has fetched the page again.
ExpiredEntryIsMissWitness ==
    \E r \in Reqs :
        /\ req[r].expect = "expired" /\ req[r].pc = "done"
        /\ req[r].engine.kind = "return" /\ req[r].aruns = 1

\* C4 (checked under SpecAdapter): a fetch_documentation_page request whose
\* arguments lack "url" or hold a "url" that is not a string ends with an
\* McpError of code INVALID_PARAMS, without the wrapper or the crawl being
\* invoked.
MalformedCallRejected ==
    \A r \in Reqs :
        /\ req[r].pc # "idle"
        /\ req[r].name = "fetch_documentation_page"
        /\ Malformed(req[r].arguments)
        => /\ req[r].pc = "done"
           /\ req[r].response.kind = "error"
           /\ req[r].response.code = INVALID_PARAMS
           /\ ~Called(req[r])
           /\ req[r].aruns = 0
           /\ server = "serving"

\* C5 (checked under SpecAdapter): the fetch tool answers a successful fetch
\* with the text "# " + title + "\n\n" + markdown, and a fetch the engine
\* reports as failed (success = false) with a text that is not the page text.
FetchToolOutput ==
    \A r \in Reqs :
        /\ req[r].via = "tool"
        /\ req[r].pc = "done"
        /\ req[r].engine.kind = "return"
        => LET page == <<"# ">> \o req[r].engine.title \o <<NL, NL>>
                       \o req[r].engine.markdown
           IN /\ req[r].response.kind = "content"
              /\ req[r].engine.success => req[r].response.text = page
              /\ ~req[r].engine.success => req[r].response.text # page

\* C6 (checked under SpecSources): every answered list_documentation_sources
\* request holds one descriptor per configured URL, in order; the step that
\* answers it changes neither DOCUMENTATION_URLS nor a cache and invokes no
\* crawl; and DOCUMENTATION_URLS never changes once serve() has set it.
ListSourcesPureRead ==
    /\ [](\A r \in Reqs :
            req[r].pc = "done" /\ req[r].name = "list_documentation_sources"
            => /\ Len(req[r].results) = Len(DOCUMENTATION_URLS)
               /\ \A i \in 1..Len(DOCUMENTATION_URLS) :
                      req[r].results[i] =
                          [url |-> DOCUMENTATION_URLS[i], type |-> <<"web">>,
                           description |-> <<"Web-based documentation">>])
    /\ [][\A r \in Reqs :
            (req[r].pc = "idle" /\ req'[r].name = "list_documentation_sources")
            => /\ DOCUMENTATION_URLS' = DOCUMENTATION_URLS
               /\ http_cache' = http_cache
               /\ cache' = cache
               /\ \A q \in Reqs : req'[q].aruns = req[q].aruns]_vars
    /\ [][server = "serving" => DOCUMENTATION_URLS' = DOCUMENTATION_URLS]_vars

\* Two different sources are configured, a page has been fetched, and a list
\* request made after it has been answered with two descriptors.
ListSourcesPureReadWitness ==
    \E r1, r2 \in Reqs :
        /\ r1 < r2
        /\ req[r1].pc = "done" /\ req[r1].engine.kind = "return"
        /\ req[r2].pc = "done" /\ req[r2].name = "list_documentation_sources"
        /\ Len(req[r2].results) = 2
        /\ req[r2].results[1].url # req[r2].results[2].url

\* C7 (checked under Spec): two requests for one URL that overlap both miss
\* and both crawl, and when both have completed successfully the cache holds
\* the key with the record of the one that completed last.
LastWriterWins ==
    \A r1, r2 \in Reqs :
        /\ r1 # r2
        /\ r2 \in req[r1].peers
        /\ req[r1].pc = "done" /\ req[r1].engine.kind = "return"
        /\ req[r2].pc = "done" /\ req[r2].engine.kind = "return"
        /\ now = last[req[r1].url].at
        => /\ ~req[r1].hit /\ ~req[r2].hit
           /\ req[r1].aruns = 1 /\ req[r2].aruns = 1
           /\ req[r1].key \in DOMAIN http_cache.data
           /\ http_cache.data[req[r1].key].value = last[req[r1].url].record

CrawlFailureSurfaced ==
    \A r \in Reqs :
        req[r].engine.kind = "raise"
        => /\ req[r].aruns = 1
           /\ req[r].pc \in {"closing", "done"}
           /\ req[r].pc = "done"
              => /\ req[r].session = "closed"
                 /\ EndsWith(req[r].response.text, req[r].engine.msg)
                 /\ Head(req[r].response.text) # "# "
                 /\ req[r].via = "tool"
                    => /\ req[r].response.kind = "error"
                       /\ req[r].response.code = INTERNAL_ERROR
                 /\ req[r].via = "prompt"
                    => /\ req[r].response.kind = "prompt"
                       /\ Head(req[r].response.description)
                              = "Failed to fetch content from URL: "

\* A tool request and a prompt request have both ended with a crawl failure.
CrawlFailureSurfacedWitness ==
    \E r1, r2 \in Reqs :
        /\ req[r1].pc = "done" /\ req[r1].engine.kind = "raise" /\ req[r1].via = "tool"
        /\ req[r2].pc = "done" /\ req[r2].engine.kind = "raise" /\ req[r2].via = "prompt"

\* C10 (checked under Spec): the keys of two values are equal exactly when
\* the values are, for the values clients send and for the calls made; and
\* every record a fetch has returned carries the URL it was called with and is
\* the record of a crawl of that URL.
FingerprintCorrect ==
    /\ \A v1, v2 \in UrlValues : (CacheKey(v1) = CacheKey(v2)) <=> (v1 = v2)
    /\ \A r1, r2 \in Reqs :
           Called(req[r1]) /\ Called(req[r2])
           => ((req[r1].key = req[r2].key) <=> (req[r1].url = req[r2].url))
    /\ \A r \in Reqs :
           req[r].pc = "done" /\ (req[r].hit \/ req[r].engine.kind = "return")
           => /\ req[r].result.url = req[r].url
              /\ ~req[r].hit => req[r].result = Crawled(req[r].url, req[r].engine)
              /\ req[r].hit => req[r].result = last[req[r].url].record

\* Fetches of two different URLs have both returned a record.
FingerprintCorrectWitness ==
    \E r1, r2 \in Reqs :
        /\ req[r1].url # req[r2].url
        /\ req[r1].key # req[r2].key
        /\ req[r1].pc = "done" /\ req[r1].engine.kind = "return"
        /\ req[r2].pc = "done" /\ req[r2].engine.kind = "return"

====
